---- MODULE Spec2Model ----
(***************************************************************************)
(* A model of oss_src/util/cityhash_gl.cpp (namespace graphlab):           *)
(*                                                                         *)
(*   hash128(const flexible_type&), hash64(const flexible_type&)           *)
(*   hash128(const std::vector<flexible_type>&)                            *)
(*   hash64 (const std::vector<flexible_type>&)                            *)
(*   hash64_proportion_cutoff(double)                                      *)
(*                                                                         *)
(* The sequence hashers are modelled statement by statement (seed, one     *)
(* loop iteration per step, return).  The primitives they call live in     *)
(* util/cityhash_gl.hpp and flexible_type/flexible_type.hpp; they are      *)
(* represented by a small family of interpretations over a finite digest   *)
(* space, fixed at start-up, so that every statement about the hashers is  *)
(* checked for each of them.                                               *)
(*                                                                         *)
(* hash64_proportion_cutoff is modelled bit for bit: a double is its       *)
(* IEEE-754 binary64 fields, a uint64_t is a sequence of 64 bits, least    *)
(* significant first, and the arithmetic wraps modulo 2^64 as unsigned     *)
(* arithmetic does.                                                        *)
(***************************************************************************)
EXTENDS Integers, Sequences, FiniteSets

VARIABLES
  mix,        \* which mixing function hash128_combine is
  seedfn,     \* which function hash128 of an integer is
  v,          \* argument of the running hash128 / hash64 vector call
  kind,       \* "hash128" or "hash64": the overload the caller entered
  pc,         \* position in the vector hashers
  h,          \* local h of hash128(vector)
  i,          \* number of elements the range-for has consumed
  ncombine,   \* number of hash128_combine calls made by this call
  exc,        \* the exception in flight, None when there is none
  ret64,      \* value returned by hash64(vector)
  prev,       \* the last hash64(vector) call that returned

  ndebug,     \* TRUE: built with NDEBUG (DASSERT_* expand to nothing)
  proportion, \* argument of hash64_proportion_cutoff
  cpc,        \* position in hash64_proportion_cutoff
  x_half,     \* local x_half
  wrapped,    \* carry out of bit 63 of the final addition
  cutoff,     \* value returned
  cprev       \* the last hash64_proportion_cutoff call that returned

hvars == <<mix, seedfn, v, kind, pc, h, i, ncombine, exc, ret64, prev>>
cvars == <<ndebug, proportion, cpc, x_half, wrapped, cutoff, cprev>>
vars  == <<hvars, cvars>>

None == [none |-> TRUE]

-----------------------------------------------------------------------------
(* Bounds of the model.                                                    *)

\* Longest std::vector<flexible_type> hashed.
MaxLen == 2

\* Number of 128-bit digests of the finite digest space.
DigestSpace == 3

-----------------------------------------------------------------------------
(* The collaborators of the vector hashers.                                *)

Digests == 0 .. (DigestSpace - 1)

Mixes == {"add", "affine", "checked"}
Seeds == {"mod", "const"}

\* A flexible_type: an integer, any other value (named by an id), or a value
\* whose hash128() throws.
IntValue(n) == [tag |-> "int", val |-> n]
OtherValue(k) == [tag |-> "other", val |-> k]
BadValue == [tag |-> "bad", val |-> 0]

Elements == {OtherValue(k) : k \in Digests} \cup {BadValue}

\* flexible_type::hash128(): the digest, or the exception it throws.
DigestError(x) == [error |-> "hash128", of |-> x]

digest128(x) ==
  CASE x.tag = "int"   -> IF seedfn = "mod" THEN (x.val + 1) % DigestSpace ELSE 1
    [] x.tag = "other" -> x.val
    [] x.tag = "bad"   -> DigestError(x)

digest_throws(x) == x.tag = "bad"

\* flexible_type::hash(): the 64-bit digest.
digest64(x) == (2 * x.val + 1) % DigestSpace

\* hash128_combine(h, d): addition or an affine map modulo the digest space;
\* "checked" is the addition that fails instead of wrapping.
hash128_combine(a, b) ==
  IF mix = "affine" THEN (2 * a + b + 1) % DigestSpace
                    ELSE (a + b) % DigestSpace

CombineError(a, b) == [error |-> "hash128_combine", of |-> <<a, b>>]

combine_throws(a, b) == mix = "checked" /\ a + b >= DigestSpace

\* hash64(uint128_t): the 128-to-64-bit reduction.
hash64_of_128(d) == (d * d + 1) % DigestSpace

-----------------------------------------------------------------------------
(* ValueHasher: the single-value overloads.                                *)

hash128_value(x) == digest128(x)

hash64_value(x) == digest64(x)

\* hash128(v.size()): the element count hashed as an integer value.
hash128_size(n) == hash128_value(IntValue(n))

-----------------------------------------------------------------------------
(* SequenceHasher.                                                         *)

RECURSIVE SeqsUpTo(_)
SeqsUpTo(n) ==
  IF n = 0 THEN {<<>>}
  ELSE LET S == SeqsUpTo(n - 1)
       IN S \cup {Append(s, e) : s \in {t \in S : Len(t) = n - 1}, e \in Elements}

Inputs == SeqsUpTo(MaxLen)

HashInit ==
  /\ mix \in Mixes
  /\ seedfn \in Seeds
  /\ v = <<>>
  /\ kind = "hash128"
  /\ pc = "idle"
  /\ h = 0
  /\ i = 0
  /\ ncombine = 0
  /\ exc = None
  /\ ret64 = 0
  /\ prev = None

\* What the caller keeps of a hash64(vector) call that returned.
Returned == [seq |-> v, h128 |-> h, h64 |-> ret64]

\* A caller enters hash128(v) or hash64(v).
Call(s, k) ==
  /\ pc \in {"idle", "returned", "thrown"}
  /\ v' = s
  /\ kind' = k
  /\ pc' = "seed"
  /\ h' = 0
  /\ i' = 0
  /\ ncombine' = 0
  /\ exc' = None
  /\ ret64' = 0
  /\ prev' = IF pc = "returned" /\ kind = "hash64" THEN Returned ELSE prev
  /\ UNCHANGED <<mix, seedfn>>

\* Hash128Seed with the seed forgotten:  uint128_t h = 0;
Hash128Seed_unseeded ==
  /\ pc = "seed"
  /\ h' = 0
  /\ pc' = "loop"
  /\ UNCHANGED <<mix, seedfn, v, kind, i, ncombine, exc, ret64, prev>>

\* uint128_t h = hash128(v.size());
Hash128Seed ==
  /\ pc = "seed"
  /\ h' = hash128_size(Len(v))
  /\ pc' = "loop"
  /\ UNCHANGED <<mix, seedfn, v, kind, i, ncombine, exc, ret64, prev>>

\* Hash128Step with the operands of hash128_combine exchanged.
Hash128Step_swapped ==
  /\ pc = "loop"
  /\ i < Len(v)
  /\ LET x == v[i + 1]
     IN IF digest_throws(x)
        THEN /\ exc' = digest128(x)
             /\ pc' = "thrown"
             /\ UNCHANGED <<h, i, ncombine>>
        ELSE IF combine_throws(digest128(x), h)
        THEN /\ exc' = CombineError(digest128(x), h)
             /\ pc' = "thrown"
             /\ UNCHANGED <<h, i, ncombine>>
        ELSE /\ h' = hash128_combine(digest128(x), h)
             /\ i' = i + 1
             /\ ncombine' = ncombine + 1
             /\ UNCHANGED <<pc, exc>>
  /\ UNCHANGED <<mix, seedfn, v, kind, ret64, prev>>

\* Hash128Step with a handler around x.hash128() that skips the element.
Hash128Step_swallow ==
  /\ pc = "loop"
  /\ i < Len(v)
  /\ LET x == v[i + 1]
     IN IF digest_throws(x)
        THEN /\ i' = i + 1
             /\ UNCHANGED <<h, pc, exc, ncombine>>
        ELSE IF combine_throws(h, digest128(x))
        THEN /\ exc' = CombineError(h, digest128(x))
             /\ pc' = "thrown"
             /\ UNCHANGED <<h, i, ncombine>>
        ELSE /\ h' = hash128_combine(h, digest128(x))
             /\ i' = i + 1
             /\ ncombine' = ncombine + 1
             /\ UNCHANGED <<pc, exc>>
  /\ UNCHANGED <<mix, seedfn, v, kind, ret64, prev>>

\* One iteration of  for(const flexible_type& x : v)
\*                     h = hash128_combine(h, x.hash128());
\* An exception of x.hash128() or of hash128_combine leaves the function:
\* nothing catches it.
Hash128Step ==
  /\ pc = "loop"
  /\ i < Len(v)
  /\ LET x == v[i + 1]
     IN IF digest_throws(x)
        THEN /\ exc' = digest128(x)
             /\ pc' = "thrown"
             /\ UNCHANGED <<h, i, ncombine>>
        ELSE IF combine_throws(h, digest128(x))
        THEN /\ exc' = CombineError(h, digest128(x))
             /\ pc' = "thrown"
             /\ UNCHANGED <<h, i, ncombine>>
        ELSE /\ h' = hash128_combine(h, digest128(x))
             /\ i' = i + 1
             /\ ncombine' = ncombine + 1
             /\ UNCHANGED <<pc, exc>>
  /\ UNCHANGED <<mix, seedfn, v, kind, ret64, prev>>

\* return h;  and, in hash64(v),  return hash64(hash128(v));
Hash128Return ==
  /\ pc = "loop"
  /\ i = Len(v)
  /\ IF kind = "hash64"
     THEN pc' = "reduce"
     ELSE pc' = "returned"
  /\ UNCHANGED <<mix, seedfn, v, kind, h, i, ncombine, exc, ret64, prev>>

\* Hash64Return computing the 64-bit digest from the elements' 64-bit digests.
Hash64Return_independent ==
  /\ pc = "reduce"
  /\ ret64' = IF v = <<>> THEN 0 ELSE hash64_value(v[Len(v)])
  /\ pc' = "returned"
  /\ UNCHANGED <<mix, seedfn, v, kind, h, i, ncombine, exc, prev>>

Hash64Return ==
  /\ pc = "reduce"
  /\ ret64' = hash64_of_128(h)
  /\ pc' = "returned"
  /\ UNCHANGED <<mix, seedfn, v, kind, h, i, ncombine, exc, prev>>

CutoffIdle ==
  /\ ndebug = FALSE
  /\ proportion = None
  /\ cpc = "idle"
  /\ x_half = <<>>
  /\ wrapped = FALSE
  /\ cutoff = <<>>
  /\ cprev = None

Init == HashInit /\ CutoffIdle

Next ==
  \/ \E s \in Inputs, k \in {"hash128", "hash64"} : Call(s, k) /\ UNCHANGED cvars
  \/ Hash128Seed /\ UNCHANGED cvars
  \/ Hash128Step /\ UNCHANGED cvars
  \/ Hash128Return /\ UNCHANGED cvars
  \/ Hash64Return /\ UNCHANGED cvars

Spec == Init /\ [][Next]_vars

-----------------------------------------------------------------------------
(* Unsigned integers as sequences of bits, least significant bit first.    *)

\* Number of free leading fraction bits of the doubles tried as proportion.
FracBits == 1

\* Width of uint64_t.
Width == 64

\* Width of the fraction field of a double.
FracWidth == 52

Zeros(n) == [k \in 1 .. n |-> 0]

Ones(n) == [k \in 1 .. n |-> 1]

\* a, zero-extended to n bits.
Pad(a, n) == a \o Zeros(n - Len(a))

\* 2^k as an n-bit number.
Pow2(k, n) == [j \in 1 .. n |-> IF j = k + 1 THEN 1 ELSE 0]

IsZero(a) == \A k \in 1 .. Len(a) : a[k] = 0

\* a < b, for a and b of the same length.
Less(a, b) ==
  \E k \in 1 .. Len(a) :
    /\ a[k] < b[k]
    /\ \A j \in (k + 1) .. Len(a) : a[j] = b[j]

LessEq(a, b) == a = b \/ Less(a, b)

\* a + b + c for a and b of the same length n: n + 1 bits.
RECURSIVE AddC(_, _, _)
AddC(a, b, c) ==
  IF a = <<>> THEN <<c>>
  ELSE IF Len(a) = 1 THEN <<(a[1] + b[1] + c) % 2, (a[1] + b[1] + c) \div 2>>
  ELSE LET t == a[1] + b[1] + c
           u == a[2] + b[2] + (t \div 2)
       IN <<t % 2, u % 2>>
          \o AddC(SubSeq(a, 3, Len(a)), SubSeq(b, 3, Len(b)), u \div 2)

\* a - b - c for a >= b + c of the same length n: n bits.
RECURSIVE SubC(_, _, _)
SubC(a, b, c) ==
  IF a = <<>> THEN <<>>
  ELSE IF Len(a) = 1 THEN <<(a[1] - b[1] - c) % 2>>
  ELSE LET t == a[1] - b[1] - c
           u == a[2] - b[2] - (IF t < 0 THEN 1 ELSE 0)
       IN <<t % 2, u % 2>>
          \o SubC(SubSeq(a, 3, Len(a)), SubSeq(b, 3, Len(b)), IF u < 0 THEN 1 ELSE 0)

\* std::min on uint64_t.
Min(a, b) == IF Less(b, a) THEN b ELSE a

\* std::numeric_limits<uint64_t>::max().
MAX_UINT64 == Ones(Width)

-----------------------------------------------------------------------------
(* double: the IEEE-754 binary64 fields.                                   *)

Double(s, e, f) == [sign |-> s, exp |-> e, frac |-> f]

ExpBias == 1023

ExpMax == 2047

IsNaN(d) == d.exp = ExpMax /\ ~IsZero(d.frac)

IsInf(d) == d.exp = ExpMax /\ IsZero(d.frac)

IsZeroD(d) == d.exp = 0 /\ IsZero(d.frac)

MagLess(a, b) == a.exp < b.exp \/ (a.exp = b.exp /\ Less(a.frac, b.frac))

\* a < b on doubles (false when either is a NaN; -0.0 equals 0.0).
DoubleLess(a, b) ==
  /\ ~IsNaN(a)
  /\ ~IsNaN(b)
  /\ ~(IsZeroD(a) /\ IsZeroD(b))
  /\ CASE a.sign = 1 /\ b.sign = 0 -> TRUE
       [] a.sign = 0 /\ b.sign = 1 -> FALSE
       [] a.sign = 0 /\ b.sign = 0 -> MagLess(a, b)
       [] a.sign = 1 /\ b.sign = 1 -> MagLess(b, a)

\* a >= b and a <= b on doubles.
DoubleGE(a, b) == ~IsNaN(a) /\ ~IsNaN(b) /\ ~DoubleLess(a, b)

DoubleLE(a, b) == ~IsNaN(a) /\ ~IsNaN(b) /\ ~DoubleLess(b, a)

DZero == Double(0, 0, Zeros(FracWidth))

DOne == Double(0, ExpBias, Zeros(FracWidth))

\* double(uint64_t(1) << 63)
TwoTo63 == Double(0, ExpBias + 63, Zeros(FracWidth))

\* Index of the most significant set bit of a nonzero a.
Msb(a) == CHOOSE k \in 1 .. Len(a) : a[k] = 1 /\ \A j \in (k + 1) .. Len(a) : a[j] = 0

\* a * b for b a power of two not below 1 (the product is exact unless it
\* overflows to infinity).
DoubleMulPow2(a, b) ==
  LET k == b.exp - ExpBias
  IN CASE IsNaN(a) \/ IsInf(a) \/ IsZeroD(a) -> a
       [] a.exp = 0 /\ ~IsZero(a.frac) ->
            LET m == Msb(a.frac)
            IN Double(a.sign, m - FracWidth + k,
                      Zeros(FracWidth - (m - 1)) \o SubSeq(a.frac, 1, m - 1))
       [] OTHER ->
            IF a.exp + k >= ExpMax
            THEN Double(a.sign, ExpMax, Zeros(FracWidth))
            ELSE Double(a.sign, a.exp + k, a.frac)

\* The integer part of m * 2^sh, for a bit sequence m.
ShiftTrunc(m, sh) ==
  IF sh >= 0 THEN Zeros(sh) \o m
  ELSE IF -sh >= Len(m) THEN <<>>
  ELSE SubSeq(m, 1 - sh, Len(m))

\* uint64_t(d): truncation towards zero; undefined when the truncated value
\* is not a uint64_t.
ToUint64(d) ==
  IF IsNaN(d) \/ IsInf(d) THEN [defined |-> FALSE, bits |-> <<>>]
  ELSE IF d.exp = 0 THEN [defined |-> TRUE, bits |-> Zeros(Width)]
  ELSE LET sh == d.exp - ExpBias - FracWidth
       IN IF sh > Width - (FracWidth + 1)
          THEN [defined |-> FALSE, bits |-> <<>>]
          ELSE LET t == ShiftTrunc(d.frac \o <<1>>, sh)
               IN IF IsZero(t) THEN [defined |-> TRUE, bits |-> Zeros(Width)]
                  ELSE IF d.sign = 1 THEN [defined |-> FALSE, bits |-> <<>>]
                  ELSE [defined |-> TRUE, bits |-> Pad(t, Width)]

\* What a conversion with undefined behaviour may leave in x_half whatever
\* the operand: 0, the "integer indefinite" pattern 2^63, or all ones.
UBValues == {Zeros(Width), Pow2(Width - 1, Width), MAX_UINT64}

\* What the undefined uint64_t(d) may leave in x_half.  For a negative d whose
\* magnitude truncates to t < 2^64 the conversion through a signed 64-bit
\* integer leaves 2^64 - t (what x86-64 builds produce: -0.1 * 2^63 gives
\* 0xf333333333333300), besides the operand-independent values.
UBOutcomes(d) ==
  UBValues \cup
    (IF ~IsNaN(d) /\ ~IsInf(d) /\ d.sign = 1 /\ d.exp # 0
        /\ d.exp - ExpBias - FracWidth <= Width - (FracWidth + 1)
     THEN {SubC(Zeros(Width),
                Pad(ShiftTrunc(d.frac \o <<1>>, d.exp - ExpBias - FracWidth), Width),
                0)}
     ELSE {})

-----------------------------------------------------------------------------
(* The proportions tried.                                                  *)

Nibble(d) == <<d % 2, (d \div 2) % 2, (d \div 4) % 2, d \div 8>>

\* The fraction field written as 13 hexadecimal digits, most significant first.
RECURSIVE FracFromHex(_)
FracFromHex(hs) ==
  IF hs = <<>> THEN <<>>
  ELSE FracFromHex(Tail(hs)) \o Nibble(Head(hs))

\* The fraction whose leading FracBits bits are the number t, the rest 0.
TopFrac(t) ==
  [k \in 1 .. FracWidth |->
     IF k > FracWidth - FracBits
     THEN (t \div (2 ^ (k - (FracWidth - FracBits) - 1))) % 2
     ELSE 0]

\* Exponent fields: subnormals, around 2^-64 .. 2^-62, around the point where
\* proportion * 2^63 has no fraction bits left, [0.25, 2).
GridExps == {0, 959, 960, 961, 1010, 1011, 1012, 1021, 1022, 1023}

Frac01 == FracFromHex(<<9, 9, 9, 9, 9, 9, 9, 9, 9, 9, 9, 9, 10>>)

Frac09 == FracFromHex(<<12, 12, 12, 12, 12, 12, 12, 12, 12, 12, 12, 12, 13>>)

D01 == Double(0, 1019, Frac01)

D025 == Double(0, 1021, Zeros(FracWidth))

D05 == Double(0, 1022, Zeros(FracWidth))

D09 == Double(0, 1022, Frac09)

Frac11 == FracFromHex(<<1, 9, 9, 9, 9, 9, 9, 9, 9, 9, 9, 9, 10>>)

D11 == Double(0, 1023, Frac11)

DBelowOne == Double(0, 1022, Ones(FracWidth))

DMinSubnormal == Double(0, 0, Pow2(0, FracWidth))

DNegZero == Double(1, 0, Zeros(FracWidth))

DNeg01 == Double(1, 1019, Frac01)

DNeg05 == Double(1, 1022, Zeros(FracWidth))

DNeg09 == Double(1, 1022, Frac09)

DTwo == Double(0, 1024, Zeros(FracWidth))

DInf == Double(0, ExpMax, Zeros(FracWidth))

DNaN == Double(0, ExpMax, Pow2(FracWidth - 1, FracWidth))

Proportions ==
  {Double(0, e, TopFrac(t)) : e \in GridExps, t \in 0 .. (2 ^ FracBits - 1)}
  \cup {D01, D09, D11, DBelowOne, DMinSubnormal, DNegZero, DNeg01, DNeg05, DNeg09,
          DTwo, DInf, DNaN}

-----------------------------------------------------------------------------
(* hash64_proportion_cutoff.                                               *)

HashIdle ==
  /\ mix = "add"
  /\ seedfn = "mod"
  /\ v = <<>>
  /\ kind = "hash128"
  /\ pc = "idle"
  /\ h = 0
  /\ i = 0
  /\ ncombine = 0
  /\ exc = None
  /\ ret64 = 0
  /\ prev = None

CutInit ==
  /\ ndebug \in BOOLEAN
  /\ proportion = None
  /\ cpc = "idle"
  /\ x_half = <<>>
  /\ wrapped = FALSE
  /\ cutoff = <<>>
  /\ cprev = None

\* A caller enters hash64_proportion_cutoff(p); it keeps the last result.
CutCall(p) ==
  /\ cpc \in {"idle", "done"}
  /\ proportion' = p
  /\ cpc' = "entry"
  /\ x_half' = <<>>
  /\ wrapped' = FALSE
  /\ cutoff' = <<>>
  /\ cprev' = IF cpc = "done" THEN [p |-> proportion, cutoff |-> cutoff] ELSE cprev
  /\ UNCHANGED ndebug

\* CutAssert with the upper bound left unchecked.
CutAssert_lower_only ==
  /\ cpc = "entry"
  /\ IF ndebug \/ DoubleGE(proportion, DZero)
     THEN cpc' = "scale"
     ELSE cpc' = "fatal"
  /\ UNCHANGED <<ndebug, proportion, x_half, wrapped, cutoff, cprev>>

\* DASSERT_GE(proportion, 0.0); DASSERT_LE(proportion, 1.0);
\* The DASSERT_ family checks in builds without NDEBUG and expands to nothing
\* with it; a failed check ends the process.
CutAssert ==
  /\ cpc = "entry"
  /\ IF ndebug \/ (DoubleGE(proportion, DZero) /\ DoubleLE(proportion, DOne))
     THEN cpc' = "scale"
     ELSE cpc' = "fatal"
  /\ UNCHANGED <<ndebug, proportion, x_half, wrapped, cutoff, cprev>>

\* uint64_t x_half = uint64_t(proportion * double(uint64_t(1) << 63));
CutScale ==
  /\ cpc = "scale"
  /\ LET d == DoubleMulPow2(proportion, TwoTo63)
         c == ToUint64(d)
     IN x_half' \in (IF c.defined THEN {c.bits} ELSE UBOutcomes(d))
  /\ cpc' = "clip"
  /\ UNCHANGED <<ndebug, proportion, wrapped, cutoff, cprev>>

\* CutReturn with clip_1 equal to clip_0.
CutReturn_same_clip ==
  /\ cpc = "clip"
  /\ LET clip_0 == Pow2(Width - 1, Width)
         clip_1 == clip_0
         sum == AddC(Min(clip_0, x_half), Min(clip_1, x_half), 0)
     IN /\ cutoff' = SubSeq(sum, 1, Width)
        /\ wrapped' = (sum[Width + 1] = 1)
  /\ cpc' = "done"
  /\ UNCHANGED <<ndebug, proportion, x_half, cprev>>

\* CutReturn without the clamps:  return x_half + x_half;
CutReturn_no_clamp ==
  /\ cpc = "clip"
  /\ LET sum == AddC(x_half, x_half, 0)
     IN /\ cutoff' = SubSeq(sum, 1, Width)
        /\ wrapped' = (sum[Width + 1] = 1)
  /\ cpc' = "done"
  /\ UNCHANGED <<ndebug, proportion, x_half, cprev>>

\* CutReturn with the second term forgotten:  return std::min(clip_0, x_half);
CutReturn_one_term ==
  /\ cpc = "clip"
  /\ cutoff' = Min(Pow2(Width - 1, Width), x_half)
  /\ wrapped' = FALSE
  /\ cpc' = "done"
  /\ UNCHANGED <<ndebug, proportion, x_half, cprev>>

\* const uint64_t clip_0 = uint64_t(1) << 63;
\* const uint64_t clip_1 = std::numeric_limits<uint64_t>::max() - clip_0;
\* return std::min(clip_0, x_half) + std::min(clip_1, x_half);
\* The sum is taken modulo 2^64; wrapped records the carry it drops.
CutReturn ==
  /\ cpc = "clip"
  /\ LET clip_0 == Pow2(Width - 1, Width)
         clip_1 == SubC(MAX_UINT64, clip_0, 0)
         sum == AddC(Min(clip_0, x_half), Min(clip_1, x_half), 0)
     IN /\ cutoff' = SubSeq(sum, 1, Width)
        /\ wrapped' = (sum[Width + 1] = 1)
  /\ cpc' = "done"
  /\ UNCHANGED <<ndebug, proportion, x_half, cprev>>

CutNext ==
  \/ \E p \in Proportions : CutCall(p) /\ UNCHANGED hvars
  \/ CutAssert /\ UNCHANGED hvars
  \/ CutScale /\ UNCHANGED hvars
  \/ CutReturn /\ UNCHANGED hvars

CutoffInit == HashIdle /\ CutInit

CutoffSpec == CutoffInit /\ [][CutNext]_vars

-----------------------------------------------------------------------------
(* Properties of hash64_proportion_cutoff.                                 *)

InRange(p) == DoubleGE(p, DZero) /\ DoubleLE(p, DOne)

HasCutoff == cpc = "done"

\* C1: cutoff(0.0) is 0 and cutoff(1.0) is exactly MAX_UINT64, reached
\* without wrapping.
C1_BoundariesExact ==
  HasCutoff =>
    /\ proportion = DZero => cutoff = Zeros(Width)
    /\ proportion = DOne => (cutoff = Ones(Width) /\ ~wrapped)

C1_Witness ==
  /\ HasCutoff
  /\ proportion = DOne
  /\ cutoff = Ones(Width)
  /\ cprev # None
  /\ cprev.p = DZero
  /\ cprev.cutoff = Zeros(Width)

\* C2: for proportions 0 <= p1 < p2 <= 1, cutoff(p1) <= cutoff(p2).
C2_Monotone ==
  (HasCutoff /\ cprev # None /\ InRange(cprev.p) /\ InRange(proportion)) =>
    /\ DoubleLess(cprev.p, proportion) => LessEq(cprev.cutoff, cutoff)
    /\ DoubleLess(proportion, cprev.p) => LessEq(cutoff, cprev.cutoff)

\* The pair on either side of the point where x_half reaches 2^63.
C2_Witness ==
  /\ HasCutoff
  /\ cprev # None
  /\ cprev.p = DBelowOne
  /\ proportion = DOne
  /\ x_half = Pow2(Width - 1, Width)
  /\ Less(cprev.cutoff, cutoff)

Called == proportion # None

\* C3 as stated: in every build, a call with a proportion outside [0, 1]
\* ends in the fatal check and never goes on to compute a cutoff.
C3_AsStated ==
  (Called /\ ~InRange(proportion)) => cpc \in {"entry", "fatal"}

\* C3 amended: in a build without NDEBUG a call with a proportion outside
\* [0, 1] ends in the fatal check and computes no cutoff; the fatal check
\* fires in no other case, so a build with NDEBUG returns a value, which for
\* 1.1 is MAX_UINT64.
C3_FatalInDebugBuilds ==
  /\ (Called /\ ~ndebug /\ ~InRange(proportion)) => cpc \in {"entry", "fatal"}
  /\ cpc = "fatal" => (~ndebug /\ ~InRange(proportion) /\ cutoff = <<>>)
  /\ (HasCutoff /\ proportion = D11) => (ndebug /\ cutoff = MAX_UINT64)

C3_Witness ==
  /\ cpc = "fatal"
  /\ proportion = D11
  /\ ~ndebug

\* Wide unsigned arithmetic for the error bounds.
Wide == Width + 16

\* a without its leading zero bits, zero-extended to Wide bits.
WPad(a) == Pad(IF IsZero(a) THEN <<>> ELSE SubSeq(a, 1, Msb(a)), Wide)

WAdd(a, b) == SubSeq(AddC(WPad(a), WPad(b), 0), 1, Wide)

WLessEq(a, b) == LessEq(WPad(a), WPad(b))

WAbsDiff(a, b) ==
  IF Less(WPad(b), WPad(a)) THEN SubC(WPad(a), WPad(b), 0)
                            ELSE SubC(WPad(b), WPad(a), 0)

WMax(a, b) == IF Less(WPad(a), WPad(b)) THEN WPad(b) ELSE WPad(a)

\* a * 2^k.
Shl(a, k) == Zeros(k) \o a

\* 200 * a  (200 = 2^7 + 2^6 + 2^3; 1/200 is 0.5%).
Times200(a) == WAdd(Shl(a, 7), WAdd(Shl(a, 6), Shl(a, 3)))

\* floor(p * 2^64) for a finite p >= 0, from the fields of p.
FloorTimes2To64(p) ==
  IF p.exp = 0 THEN <<>>
  ELSE ShiftTrunc(p.frac \o <<1>>, p.exp - ExpBias - FracWidth + Width)

\* A bound on |cutoff - p * 2^64|: p * 2^64 lies in [T, T + 1), T its floor.
ErrBound(p, c) ==
  LET T == FloorTimes2To64(p)
  IN WMax(WAbsDiff(c, T), WAbsDiff(c, WAdd(T, <<1>>)))

CalibrationPoints == {D01, D025, D05, D09}

\* C7: for p in [0, 1] the fraction cutoff(p) / 2^64 of digests below the
\* cutoff is within 0.005 of p (indeed within 2^-63), and for p in
\* {0.1, 0.25, 0.5, 0.9} within 0.5% of p.
C7_Calibrated ==
  (HasCutoff /\ InRange(proportion)) =>
    LET err == ErrBound(proportion, cutoff)
    IN /\ WLessEq(Times200(err), Pow2(Width, Wide))
       /\ WLessEq(err, <<0, 1>>)
       /\ proportion \in CalibrationPoints =>
            WLessEq(Times200(err), FloorTimes2To64(proportion))

C7_Witness ==
  /\ HasCutoff
  /\ proportion = D01
  /\ ~IsZero(cutoff)
  /\ WLessEq(Times200(ErrBound(proportion, cutoff)), FloorTimes2To64(proportion))
  /\ cprev # None
  /\ cprev.p = D09

\* C10: for a proportion in [0, 1], x_half is floor(proportion * 2^63), which
\* is at most 2^63; the sum min(clip_0, x_half) + min(clip_1, x_half) does
\* not wrap, it is 2 * x_half when x_half <= 2^63 - 1, and differs from that
\* only when x_half = 2^63.
C10_NoWrapAndDouble ==
  (cpc \in {"clip", "done"} /\ InRange(proportion)) =>
    /\ WPad(Shl(x_half, 1)) = WPad(<<0>> \o Tail(WPad(FloorTimes2To64(proportion))))
    /\ LessEq(x_half, Pow2(Width - 1, Width))
    /\ HasCutoff =>
         /\ ~wrapped
         /\ Less(x_half, Pow2(Width - 1, Width)) =>
              WPad(cutoff) = WPad(Shl(x_half, 1))
         /\ WPad(cutoff) # WPad(Shl(x_half, 1)) =>
              (x_half = Pow2(Width - 1, Width) /\ cutoff = MAX_UINT64)

C10_Witness ==
  /\ HasCutoff
  /\ proportion = DOne
  /\ x_half = Pow2(Width - 1, Width)
  /\ ~wrapped
  /\ WPad(cutoff) # WPad(Shl(x_half, 1))

-----------------------------------------------------------------------------
(* Properties of the sequence hashers.                                     *)

HasReturned == pc = "returned"

\* The left fold of hash128_combine over the digests of s, from seed.
RECURSIVE FoldLeft(_, _)
FoldLeft(seed, s) ==
  IF s = <<>> THEN seed
  ELSE hash128_combine(FoldLeft(seed, SubSeq(s, 1, Len(s) - 1)),
                       digest128(s[Len(s)]))

Hash128Of(s) == FoldLeft(hash128_size(Len(s)), s)

\* C4: hash128(seq) is the left fold of combine128 over the elements' digests
\* in sequence order, seeded with the hash of the element count; every
\* element is combined exactly once.
C4_LeftFold ==
  pc \in {"reduce", "returned"} =>
    /\ h = Hash128Of(v)
    /\ ncombine = Len(v)

C4_Witness ==
  /\ HasReturned
  /\ mix = "affine"
  /\ seedfn = "mod"
  /\ Len(v) = 2
  /\ v[1] # v[2]
  /\ h = Hash128Of(v)
  /\ h # Hash128Of(<<v[2], v[1]>>)

\* C5: hash128 of the empty sequence is the hash128 of the integer value 0,
\* and no combine step is made.
C5_EmptyIsHashOfZero ==
  (pc \in {"reduce", "returned"} /\ v = <<>>) =>
    /\ h = hash128_value(IntValue(0))
    /\ ncombine = 0

C5_Witness ==
  /\ HasReturned
  /\ v = <<>>
  /\ h = hash128_value(IntValue(0))

\* C6: hash64(s) is the 128-to-64-bit reduction of hash128(s); two sequences
\* with the same hash128 have the same hash64.
C6_WidthConsistency ==
  (HasReturned /\ kind = "hash64") =>
    /\ ret64 = hash64_of_128(Hash128Of(v))
    /\ (prev # None /\ prev.h128 = h) => prev.h64 = ret64

C6_Witness ==
  /\ HasReturned
  /\ kind = "hash64"
  /\ prev # None
  /\ prev.seq # v
  /\ prev.h128 = h
  /\ prev.h64 = ret64

\* The first failure met when hashing s from element k on with running
\* hash hh: the failing element's index and the exception, or None.
RECURSIVE FirstFailure(_, _, _)
FirstFailure(hh, s, k) ==
  IF k > Len(s) THEN None
  ELSE IF digest_throws(s[k]) THEN [at |-> k, e |-> DigestError(s[k])]
  ELSE IF combine_throws(hh, digest128(s[k]))
       THEN [at |-> k, e |-> CombineError(hh, digest128(s[k]))]
  ELSE FirstFailure(hash128_combine(hh, digest128(s[k])), s, k + 1)

FailureOf(s) == FirstFailure(hash128_size(Len(s)), s, 1)

\* C8: a failing element digest or combine step fails the whole hash128 /
\* hash64 call with that same failure; no digest is returned.
C8_FailurePropagates ==
  /\ (pc # "idle" /\ FailureOf(v) # None) => pc \notin {"reduce", "returned"}
  /\ pc = "thrown" =>
       /\ FailureOf(v) # None
       /\ exc = FailureOf(v).e
       /\ i = FailureOf(v).at - 1
       /\ ret64 = 0
  /\ pc # "thrown" => exc = None

\* A combine step that fails, after an element was combined.
C8_WitnessCombine ==
  /\ pc = "thrown"
  /\ kind = "hash128"
  /\ i = 1
  /\ ~digest_throws(v[2])
  /\ exc = CombineError(h, digest128(v[2]))

C8_Witness ==
  /\ pc = "thrown"
  /\ kind = "hash64"
  /\ Len(v) = 2
  /\ ~digest_throws(v[1])
  /\ digest_throws(v[2])
  /\ exc = DigestError(v[2])

\* The provisos of C9.
SeedsDistinct ==
  \A m, n \in 0 .. MaxLen : m # n => hash128_size(m) # hash128_size(n)

CombineInjectiveInFirst ==
  \A a, b, d \in Digests :
    hash128_combine(a, d) = hash128_combine(b, d) => a = b

Provisos == SeedsDistinct /\ CombineInjectiveInFirst

PrevIsSingleton == prev # None /\ Len(prev.seq) = 1

\* b's digest leaves the running hash of <<a, b>> unchanged.
RightIdentityAt(a, b) ==
  LET run == hash128_combine(hash128_size(2), digest128(a))
  IN hash128_combine(run, digest128(b)) = run

\* C9 as stated: under the provisos hash128([a]) differs from hash128([a, a])
\* for every a, and from hash128([a, b]) when b's digest is a right identity.
C9_AsStated ==
  (HasReturned /\ PrevIsSingleton /\ Provisos /\ Len(v) = 2 /\ v[1] = prev.seq[1]) =>
    /\ v[2] = v[1] => h # prev.h128
    /\ RightIdentityAt(v[1], v[2]) => h # prev.h128

\* C9 amended: under the provisos hash128([a]) differs from hash128([a, b])
\* when b's digest is a right identity, and differs from hash128([a, a])
\* exactly when hash128(1) differs from combine128(hash128(2), a.digest128()).
C9_LengthSensitive ==
  (HasReturned /\ PrevIsSingleton /\ Provisos /\ Len(v) = 2 /\ v[1] = prev.seq[1]) =>
    /\ RightIdentityAt(v[1], v[2]) => h # prev.h128
    /\ v[2] = v[1] =>
         (h # prev.h128 <=>
            hash128_size(1) # hash128_combine(hash128_size(2), digest128(v[1])))

C9_Witness ==
  /\ HasReturned
  /\ PrevIsSingleton
  /\ Provisos
  /\ Len(v) = 2
  /\ v[1] = prev.seq[1]
  /\ v[2] # v[1]
  /\ RightIdentityAt(v[1], v[2])
  /\ h # prev.h128

====
